---- MODULE Spec2Model ----
(***************************************************************************)
(* Model of the line-stepping engine SimpleRuntime (simple-runtime.ts).    *)
(* Text is modelled character by character: a string is a sequence of      *)
(* one-character strings, a file is the character sequence on disk.        *)
(***************************************************************************)
EXTENDS Integers, Sequences, FiniteSets, TLC

\* ------------------------------------------------------------------------
\* Bounds of the model
\* ------------------------------------------------------------------------
\* largest breakpoint id the model hands out
MaxBpId == 2
\* most breakpoints held in the tables at once
MaxLive == 2
\* largest line number passed to setBreakPoint / clearBreakPoint / getBreakpoints
MaxLineArg == 3
\* largest startFrame / endFrame passed to stack
MaxFrame == 2
\* longest run of forward steps followed through sym
MaxSteps == 2
\* an operation is only called while at most this many events wait in the
\* setImmediate queue
MaxPendingBefore == 0
\* requests the client sends and messages the web socket delivers to the
\* session
MaxRequests == 2
MaxMessages == 2

\* ------------------------------------------------------------------------
\* Strings
\* ------------------------------------------------------------------------
EOL == "\n"
WhiteSpace == {" ", "\t"}

SetMin(S) == CHOOSE x \in S : \A y \in S : x <= y
SetMax(S) == CHOOSE x \in S : \A y \in S : x >= y

\* s.substring(i) for a 1-based position i
Tail1(s, i) == SubSeq(s, i, Len(s))

\* String.prototype.trim
RECURSIVE TrimLeft(_)
TrimLeft(s) ==
  IF s # <<>> /\ s[1] \in WhiteSpace THEN TrimLeft(Tail(s)) ELSE s
RECURSIVE TrimRight(_)
TrimRight(s) ==
  IF s # <<>> /\ s[Len(s)] \in WhiteSpace
    THEN TrimRight(SubSeq(s, 1, Len(s) - 1)) ELSE s
Trim(s) == TrimRight(TrimLeft(s))

\* String.prototype.indexOf(pat), 0-based, -1 when absent (pat is not empty)
IndexOf(s, pat) ==
  LET hits == { i \in 1..Len(s) :
                  /\ i + Len(pat) - 1 <= Len(s)
                  /\ SubSeq(s, i, i + Len(pat) - 1) = pat }
  IN IF hits = {} THEN -1 ELSE SetMin(hits) - 1

\* String.prototype.split(c) for a one-character separator c
RECURSIVE SplitChar(_, _)
SplitChar(s, c) ==
  LET hits == { i \in 1..Len(s) : s[i] = c }
  IN IF hits = {} THEN <<s>>
     ELSE LET i == SetMin(hits)
          IN <<SubSeq(s, 1, i - 1)>> \o SplitChar(Tail1(s, i + 1), c)

\* String.prototype.split(/\s+/)
RECURSIVE SplitWS(_)
SplitWS(s) ==
  LET hits == { i \in 1..Len(s) : s[i] \in WhiteSpace }
  IN IF hits = {} THEN <<s>>
     ELSE LET i == SetMin(hits)
              rest == { j \in (i + 1)..Len(s) : s[j] \notin WhiteSpace }
              j == IF rest = {} THEN Len(s) + 1 ELSE SetMin(rest)
          IN <<SubSeq(s, 1, i - 1)>> \o SplitWS(Tail1(s, j))

\* /log\((.*)\)/.exec(s): the leftmost "log(" that has a ")" after it, the
\* greedy group running to the last ")" of the line
LogPattern == <<"l", "o", "g", "(">>
LogExec(s) ==
  LET i == IndexOf(s, LogPattern)
      closers == { j \in (i + 5)..Len(s) : s[j] = ")" }
  IN IF i < 0 \/ closers = {}
       THEN [found |-> FALSE, group |-> <<>>, index |-> -1]
       ELSE [found |-> TRUE, group |-> SubSeq(s, i + 5, SetMax(closers) - 1),
             index |-> i]

\* the text of a file whose lines are ls, joined by the line separator
RECURSIVE JoinLines(_)
JoinLines(ls) ==
  IF Len(ls) = 0 THEN <<>>
  ELSE IF Len(ls) = 1 THEN ls[1]
  ELSE ls[1] \o <<EOL>> \o JoinLines(Tail(ls))

\* ------------------------------------------------------------------------
\* Files the engine is run on
\* ------------------------------------------------------------------------
Files == {"f", "g"}
\* the engine runs one designated entry file at a time; breakpoints are
\* configured for every open file
EntryFiles == {"f"}

sExc == <<"e", "x", "c", "e", "p", "t", "i", "o", "n">>
sLazy == <<"l", "a", "z", "y">>
sX == <<"X">>

LinesA == << <<"a">>, <<"l", "o", "g", "(", "h", "i", ")">>, <<"b">>, sExc, <<"c">> >>
LinesB == << <<>>,
             sLazy \o <<" ">> \o sX,
             <<" ", " ", "f", "o", "o", " ", " ", " ", "b", "a", "r">>,
             <<"a", "\t", "X">> >>
LinesC == << <<"-">> \o sLazy, <<"+">> \o sLazy, <<>> >>

FileTexts == { JoinLines(LinesA), JoinLines(LinesB), JoinLines(LinesC) }

\* data breakpoint addresses a client registers
Addresses == { <<>>, sX }

Directions == {"forwards", "backwards"}

StopEvents == {"stopOnEntry", "stopOnStep", "stopOnBreakpoint",
               "stopOnDataBreakpoint", "stopOnException"}

VARIABLES
  disk,                       \* file -> text on disk
  sourceLinesByFile,          \* Map<string, string[]>
  currentLineByFile,          \* Map<string, number>
  breakPointsByFile,          \* Map<string, MockBreakpoint[]>
  lastGeneratedBreakpointId,
  breakPointAddresses,        \* Set<string>
  pending,                    \* callbacks queued by setImmediate, oldest first
  lastOp,                     \* the last call made on the engine and its outcome
  history,                    \* id -> the line the breakpoint was created with
                              \*       (while a table holds it) and the number of
                              \*       breakpointValidated events sent for it
  sym                         \* the run of forward, then backward steps under way

\* MicroviumDebugSession and what surrounds it
VARIABLES
  build,                      \* the version of the class that runs: "extension" or "part_003"
  alive,                      \* the process has not died of an uncaught exception
  readyState,                 \* debugClientWebSocket.readyState
  configurationDone,          \* AwaitNotifySubject: its waiters, oldest first
  debugClientWebSocketOpen,   \* AwaitNotifySubject: its waiters, oldest first
  listeners,                  \* debuggerEventEmitter: listeners added by handlers, oldest first
  sent,                       \* the messages given to debugClientWebSocket.send
  immediates,                 \* callbacks queued by setImmediate, oldest first
  responded,                  \* the requests whose response has been sent to the client
  configured,                 \* a configurationDone request has been handled
  nRequests,                  \* requests received from the client
  nMessages,                  \* messages received from the web socket
  toClient,                   \* what the last step sent to the client, in order
  lastStep                    \* the last step of the session

engineVars == <<disk, sourceLinesByFile, currentLineByFile, breakPointsByFile,
                lastGeneratedBreakpointId, breakPointAddresses, pending, lastOp,
                history, sym>>

sessionVars == <<build, alive, readyState, configurationDone, debugClientWebSocketOpen,
                 listeners, sent, immediates, responded, configured, nRequests,
                 nMessages, toClient, lastStep>>

vars == <<disk, sourceLinesByFile, currentLineByFile, breakPointsByFile,
          lastGeneratedBreakpointId, breakPointAddresses, pending, lastOp,
          history, sym, build, alive, readyState, configurationDone,
          debugClientWebSocketOpen, listeners, sent, immediates, responded,
          configured, nRequests, nMessages, toClient, lastStep>>

\* Map helpers: a Map is a function whose domain is its key set
Has(m, k) == k \in DOMAIN m
MapSet(m, k, v) == [x \in DOMAIN m \cup {k} |-> IF x = k THEN v ELSE m[x]]
MapDelete(m, k) == [x \in DOMAIN m \ {k} |-> m[x]]
EmptyMap == [x \in {} |-> 0]

\* the file's entry of the cursor map
CursorOf(curMap, file) ==
  [present |-> Has(curMap, file),
   line |-> IF Has(curMap, file) THEN curMap[file] ELSE -1]

\* sym follows a file through start(file, true) or a first step from an unset
\* cursor, then nf steps forwards, then nb steps backwards, with no other
\* call in between; orig is the cursor before the first of these steps
SymOff == [phase |-> "off", entry |-> "", file |-> "", orig |-> CursorOf(<<>>, ""),
           nf |-> 0, nb |-> 0]

\* an event and its arguments: output has text, file, line and index,
\* breakpointValidated has the breakpoint
Ev(t) == [type |-> t, text |-> <<>>, file |-> "", line |-> -1, index |-> -1,
          bp |-> <<>>]
OutputEv(text, file, line, index) ==
  [type |-> "output", text |-> text, file |-> file, line |-> line,
   index |-> index, bp |-> <<>>]
ValidatedEv(bp) == [Ev("breakpointValidated") EXCEPT !.bp = <<bp>>]

\* lastOp: the call, how it ended ("ok", or the error it threw), what it
\* returned, the events it queued; table: for setBreakPoint (and a
\* clearBreakPoint of the same file and line right after it) the file's
\* breakpoint table as it was before the setBreakPoint; cursor: for a run
\* the file's cursor as it was before the run
Called(op, file, args, status, ret, ev, table, cursor) ==
  [op |-> op, file |-> file, args |-> args, status |-> status, ret |-> ret,
   ev |-> ev, table |-> table, cursor |-> cursor]
\* the arguments of a call and the value it returns, one field per kind
NoArgs == [stopOnEntry |-> FALSE, direction |-> "", line |-> -1,
           startFrame |-> -1, endFrame |-> -1, address |-> <<>>]
NoRet == [bp |-> <<>>, frames |-> <<>>, count |-> -1, columns |-> <<>>,
          added |-> FALSE]
NoOp == Called("none", "", NoArgs, "ok", NoRet, <<>>, <<>>, <<>>)

\* the file's entry of the breakpoint map: is there a table, and its content
TableOf(bpsMap, file) ==
  [present |-> Has(bpsMap, file),
   bps |-> IF Has(bpsMap, file) THEN bpsMap[file] ELSE <<>>]

\* const threadId = 1
threadId == 1

\* a response and an event (notification) as the client gets them; cause: the
\* request that led to the event, 0 when none did
Response(req, command, success) ==
  [kind |-> "response", name |-> command, req |-> req, success |-> success,
   reason |-> "", thread |-> 0, cause |-> 0]
ClientEvent(name, reason, thread, cause) ==
  [kind |-> "event", name |-> name, req |-> 0, success |-> TRUE,
   reason |-> reason, thread |-> thread, cause |-> cause]

\* a message string arriving on the web socket: JSON of { type, data } or not
NoMessage == [shape |-> "", type |-> "", data |-> "", cause |-> 0]

\* the last step of the session: a request, the socket opening, a message, a
\* timer of a gate or a setImmediate callback; escaped: the exceptions and
\* rejections no handler caught; released: the waiter a notify or a timer
\* let go, 0 for none
Stepped(step, command, req, msg, escaped, released) ==
  [step |-> step, command |-> command, req |-> req, msg |-> msg,
   escaped |-> escaped, released |-> released]
NoStep == Stepped("none", "", 0, NoMessage, 0, 0)

\* new MicroviumDebugSession()
SessionNew(b) ==
  /\ build = b
  /\ alive = TRUE
  /\ readyState = "CONNECTING"
  /\ configurationDone = <<>>
  /\ debugClientWebSocketOpen = <<>>
  /\ listeners = <<>>
  /\ sent = {}
  /\ immediates = <<>>
  /\ responded = {}
  /\ configured = FALSE
  /\ nRequests = 0
  /\ nMessages = 0
  /\ toClient = <<>>
  /\ lastStep = NoStep

Init ==
  /\ SessionNew("none")
  /\ disk \in { [file \in Files |-> text] : text \in FileTexts }
  /\ sourceLinesByFile = EmptyMap
  /\ currentLineByFile = EmptyMap
  /\ breakPointsByFile = EmptyMap
  /\ lastGeneratedBreakpointId = 1
  /\ breakPointAddresses = {}
  /\ pending = <<>>
  /\ lastOp = NoOp
  /\ history = [i \in 1..MaxBpId |-> [created |-> -1, validated |-> 0]]
  /\ sym = SymOff

\* ------------------------------------------------------------------------
\* Private methods
\* ------------------------------------------------------------------------
\* fs.readFileSync(file).split(os.EOL).map(l => l.trim())
ReadLines(text) ==
  LET raw == SplitChar(text, EOL)
  IN [i \in 1..Len(raw) |-> Trim(raw[i])]

\* extractSourceLines: the value returned, and the cache it leaves behind
extractSourceLines(file) ==
  IF Has(sourceLinesByFile, file) THEN sourceLinesByFile[file]
  ELSE ReadLines(disk[file])
cacheSourceLines(file) ==
  IF Has(sourceLinesByFile, file) THEN sourceLinesByFile
  ELSE MapSet(sourceLinesByFile, file, ReadLines(disk[file]))

\* needsVerification without the test of the verified flag
needsVerification_Reverify(bp, lines) == bp.line < Len(lines)

\* if (!bp.verified && bp.line < sourceLines.length)
needsVerification(bp, lines) == ~bp.verified /\ bp.line < Len(lines)

\* the line a breakpoint on the trimmed line srcLine moves to: one down for an
\* empty line or a leading '+', one up for a leading '-'
shiftedLine(line, srcLine) ==
  LET down == IF Len(srcLine) = 0 \/ IndexOf(srcLine, <<"+">>) = 0
                THEN line + 1 ELSE line
  IN IF IndexOf(srcLine, <<"-">>) = 0 THEN down - 1 ELSE down

\* verifiesNow without the test for 'lazy'
verifiesNow_Always(srcLine) == TRUE

\* if (srcLine.indexOf('lazy') < 0)
verifiesNow(srcLine) == IndexOf(srcLine, sLazy) < 0

\* verifyBreakpoints: forEach over the table from entry k on; reading
\* sourceLines[bp.line] for a negative line gives undefined, and .trim() on it
\* throws, leaving the entries before k processed and the rest untouched
RECURSIVE verifyFrom(_, _, _, _)
verifyFrom(bps, lines, k, evAcc) ==
  IF k > Len(bps) THEN [bps |-> bps, ev |-> evAcc, threw |-> FALSE]
  ELSE LET bp == bps[k] IN
    IF ~needsVerification(bp, lines)
      THEN verifyFrom(bps, lines, k + 1, evAcc)
    ELSE IF bp.line < 0
      THEN [bps |-> bps, ev |-> evAcc, threw |-> TRUE]
    ELSE
      LET srcLine == Trim(lines[bp.line + 1])
          ok == verifiesNow(srcLine)
          nbp == [id |-> bp.id, line |-> shiftedLine(bp.line, srcLine), verified |-> ok]
      IN verifyFrom([bps EXCEPT ![k] = nbp], lines, k + 1,
                    IF ok THEN Append(evAcc, ValidatedEv(nbp))
                    ELSE evAcc)

verifyBreakpoints(bps, lines) == verifyFrom(bps, lines, 1, <<>>)

\* for (let word of sourceLine.split(' ')) if (this.breakPointAddresses.has(word))
hitsDataBreakpoint(sourceLine, addrs) ==
  LET words == SplitChar(sourceLine, " ")
  IN \E k \in 1..Len(words) : words[k] \in addrs

\* hitsException that never finds the word
hitsException_Never(sourceLine) == FALSE

\* if (sourceLine.indexOf('exception') >= 0)
hitsException(sourceLine) == IndexOf(sourceLine, sExc) >= 0

\* stopsForStep that honours only the step event
stopsForStep_StepOnly(event, sourceLine) == event = "stopOnStep" /\ Len(sourceLine) > 0

\* if (event && sourceLine.length > 0)
stopsForStep(event, sourceLine) == event # "" /\ Len(sourceLine) > 0

\* processSourceLine: does the run stop on this line, the events queued, and
\* the breakpoint map afterwards. event = "" stands for undefined.
processSourceLine(lines, bpsMap, addrs, file, lineNumber, event) ==
  LET sourceLine == lines[lineNumber + 1]
      matches == LogExec(sourceLine)
      out == IF matches.found
               THEN <<OutputEv(matches.group, file, lineNumber, matches.index)>>
               ELSE <<>>
      hit == IF Has(bpsMap, file)
               THEN { k \in 1..Len(bpsMap[file]) : bpsMap[file][k].line = lineNumber }
               ELSE {}
  IN
  IF hitsDataBreakpoint(sourceLine, addrs)
    THEN [stop |-> TRUE, ev |-> Append(out, Ev("stopOnDataBreakpoint")), bps |-> bpsMap]
  ELSE IF hitsException(sourceLine)
    THEN [stop |-> TRUE, ev |-> Append(out, Ev("stopOnException")), bps |-> bpsMap]
  ELSE IF hit # {}
    THEN LET k == SetMin(hit)
             bp == bpsMap[file][k]
             vbp == [bp EXCEPT !.verified = TRUE]
         IN IF ~bp.verified
              THEN [stop |-> TRUE,
                    ev |-> out \o <<Ev("stopOnBreakpoint"),
                                    ValidatedEv(vbp)>>,
                    bps |-> [bpsMap EXCEPT ![file][k] = vbp]]
              ELSE [stop |-> TRUE, ev |-> Append(out, Ev("stopOnBreakpoint")),
                    bps |-> bpsMap]
  ELSE IF stopsForStep(event, sourceLine)
    THEN [stop |-> TRUE, ev |-> Append(out, Ev(event)), bps |-> bpsMap]
  ELSE [stop |-> FALSE, ev |-> out, bps |-> bpsMap]

\* backwardsExhausted that leaves the cursor before the first line
backwardsExhausted_BeforeFirst(bpsMap, evAcc) ==
  [cur |-> -1, ev |-> Append(evAcc, Ev("stopOnEntry")), bps |-> bpsMap]

\* no more lines going backwards: stop at first line
backwardsExhausted(bpsMap, evAcc) ==
  [cur |-> 0, ev |-> Append(evAcc, Ev("stopOnEntry")), bps |-> bpsMap]

\* forwardsExhausted that sends no event
forwardsExhausted_Silent(bpsMap, evAcc, currentLine) ==
  [cur |-> currentLine, ev |-> evAcc, bps |-> bpsMap]

\* no more lines going forwards: run to end, the cursor stays
forwardsExhausted(bpsMap, evAcc, currentLine) ==
  [cur |-> currentLine, ev |-> Append(evAcc, Ev("end")), bps |-> bpsMap]

\* the two loops of run, from lineNumber on: the cursor the run leaves
\* (currentLine when a forward run reaches the end), events and breakpoints
RECURSIVE runLoop(_, _, _, _, _, _, _, _, _)
runLoop(lines, bpsMap, addrs, file, direction, event, currentLine, lineNumber, evAcc) ==
  IF direction = "backwards" /\ lineNumber < 0
    THEN backwardsExhausted(bpsMap, evAcc)
  ELSE IF direction = "forwards" /\ lineNumber >= Len(lines)
    THEN forwardsExhausted(bpsMap, evAcc, currentLine)
  ELSE
    LET p == processSourceLine(lines, bpsMap, addrs, file, lineNumber, event)
    IN IF p.stop
         THEN [cur |-> lineNumber, ev |-> evAcc \o p.ev, bps |-> p.bps]
         ELSE runLoop(lines, bpsMap, addrs, file, direction, event, currentLine,
                      IF direction = "backwards" THEN lineNumber - 1 ELSE lineNumber + 1,
                      evAcc \o p.ev)

\* number of breakpointValidated events for breakpoint id among evs
ValidationsOf(evs, id) ==
  Cardinality({ k \in 1..Len(evs) :
                  evs[k].type = "breakpointValidated" /\ evs[k].bp[1].id = id })

\* sendEvents that queues the events of a call newest first
sendEvents_NewestFirst(evs, made) ==
  /\ pending' = pending \o [k \in 1..Len(evs) |-> evs[Len(evs) + 1 - k]]
  /\ history' = [i \in DOMAIN history |->
                   [created |-> IF i \in DOMAIN made THEN made[i] ELSE history[i].created,
                    validated |-> history[i].validated + ValidationsOf(evs, i)]]

\* sendEvent: setImmediate(() => this.emit(event, ...args))
\* made: the breakpoints the call created, id -> line
sendEvents(evs, made) ==
  /\ pending' = pending \o evs
  /\ history' = [i \in DOMAIN history |->
                   [created |-> IF i \in DOMAIN made THEN made[i] ELSE history[i].created,
                    validated |-> history[i].validated + ValidationsOf(evs, i)]]

\* the creation line of a breakpoint is kept only while a table holds it
dropped(bpsMap) ==
  [i \in DOMAIN history |->
     IF \E file \in DOMAIN bpsMap : \E k \in 1..Len(bpsMap[file]) : bpsMap[file][k].id = i
       THEN history[i]
       ELSE [history[i] EXCEPT !.created = -1]]

\* the file has no breakpoint, no data breakpoint is registered and no line of
\* the file contains 'exception'
Undisturbed(file, lines) ==
  /\ TableOf(breakPointsByFile, file).bps = <<>>
  /\ breakPointAddresses = {}
  /\ \A i \in 1..Len(lines) : IndexOf(lines[i], sExc) < 0

SymAfterRun(op, args, file, lines, cur) ==
  IF op = "start" /\ args.stopOnEntry /\ Undisturbed(file, lines)
    THEN [phase |-> "fwd", entry |-> "start", file |-> file,
          orig |-> [present |-> TRUE, line |-> cur], nf |-> 0, nb |-> 0]
  ELSE IF op = "step" /\ args.direction = "forwards" /\ Undisturbed(file, lines)
          /\ ~Has(currentLineByFile, file)
    THEN [phase |-> "fwd", entry |-> "unset", file |-> file,
          orig |-> CursorOf(currentLineByFile, file), nf |-> 1, nb |-> 0]
  ELSE IF op = "step" /\ args.direction = "forwards" /\ sym.phase = "fwd"
          /\ sym.file = file /\ sym.nf < MaxSteps
    THEN [sym EXCEPT !.nf = @ + 1]
  ELSE IF op = "step" /\ args.direction = "backwards" /\ sym.phase \in {"fwd", "back"}
          /\ sym.file = file /\ sym.nb < sym.nf
    THEN [sym EXCEPT !.phase = "back", !.nb = @ + 1]
  ELSE SymOff

\* run(file, direction, event), called as the operation op
run(op, args, file, direction, event) ==
  LET currentLine == IF Has(currentLineByFile, file) THEN currentLineByFile[file] ELSE -1
      first == IF direction = "backwards" THEN currentLine - 1 ELSE currentLine + 1
      \* the backward loop reads the source only when it visits a line
      reads == direction = "forwards" \/ first >= 0
      lines == extractSourceLines(file)
      r == runLoop(lines, breakPointsByFile, breakPointAddresses, file,
                   direction, event, currentLine, first, <<>>)
  IN /\ currentLineByFile' = MapSet(currentLineByFile, file, r.cur)
     /\ breakPointsByFile' = r.bps
     /\ sourceLinesByFile' = IF reads \/ op = "start" THEN cacheSourceLines(file)
                              ELSE sourceLinesByFile
     /\ sendEvents(r.ev, EmptyMap)
     /\ lastOp' = Called(op, file, args, "ok", NoRet, r.ev, <<>>,
                         <<CursorOf(currentLineByFile, file)>>)
     /\ sym' = SymAfterRun(op, args, file, lines, r.cur)
     /\ UNCHANGED <<disk, lastGeneratedBreakpointId, breakPointAddresses>>
     /\ UNCHANGED sessionVars

CanCall == Len(pending) <= MaxPendingBefore

\* ------------------------------------------------------------------------
\* Public methods
\* ------------------------------------------------------------------------
\* start(entryPointFile, stopOnEntry): stopOnEntry(file) or continue(file, 'forwards')
Start(file, stopOnEntry) ==
  /\ CanCall
  /\ run("start", [NoArgs EXCEPT !.stopOnEntry = stopOnEntry], file, "forwards",
         IF stopOnEntry THEN "stopOnEntry" ELSE "")

Continue(file, direction) ==
  /\ CanCall
  /\ run("continue", [NoArgs EXCEPT !.direction = direction], file, direction, "")

Step(file, direction) ==
  /\ CanCall
  /\ run("step", [NoArgs EXCEPT !.direction = direction], file, direction, "stopOnStep")

StopOnEntry(file) ==
  /\ CanCall
  /\ run("stopOnEntry", NoArgs, file, "forwards", "stopOnEntry")

DigitChar(i) == <<"0", "1", "2", "3", "4", "5", "6", "7", "8", "9">>[i + 1]

Min2(a, b) == IF a < b THEN a ELSE b

\* stack(file, startFrame, endFrame)
Stack(file, startFrame, endFrame) ==
  LET sourceLines == extractSourceLines(file)
      has == Has(currentLineByFile, file)
      currentLine == currentLineByFile[file]
      defined == has /\ currentLine >= 0 /\ currentLine < Len(sourceLines)
      words == SplitWS(Trim(sourceLines[currentLine + 1]))
      last == Min2(endFrame, Len(words))
      frames == [k \in 1..(IF last > startFrame THEN last - startFrame ELSE 0) |->
                   LET i == startFrame + k - 1
                   IN [index |-> i,
                       name |-> words[i + 1] \o <<"(", DigitChar(i), ")">>,
                       file |-> file, line |-> currentLine]]
  IN /\ CanCall
     /\ sourceLinesByFile' = cacheSourceLines(file)
     /\ lastOp' = Called("stack", file,
                         [NoArgs EXCEPT !.startFrame = startFrame, !.endFrame = endFrame],
                         IF ~has THEN "Unexpected"
                         ELSE IF ~defined THEN "TypeError" ELSE "ok",
                         IF defined
                           THEN [NoRet EXCEPT !.frames = frames, !.count = Len(words)]
                           ELSE NoRet,
                         <<>>, <<>>, <<>>)
     /\ UNCHANGED <<disk, currentLineByFile, breakPointsByFile,
                    lastGeneratedBreakpointId, breakPointAddresses, pending,
                    history, sym>>
     /\ UNCHANGED sessionVars

\* the loop of getBreakpoints over the columns from i on (0-based)
RECURSIVE tokenStarts(_, _, _)
tokenStarts(sourceLine, i, sawSpace) ==
  IF i >= Len(sourceLine) THEN <<>>
  ELSE IF sourceLine[i + 1] # " "
    THEN (IF sawSpace THEN <<i>> ELSE <<>>) \o tokenStarts(sourceLine, i + 1, FALSE)
  ELSE tokenStarts(sourceLine, i + 1, TRUE)

\* getBreakpoints(file, lineNumber); a lineNumber past the last line reads
\* undefined.length and throws
GetBreakpoints(file, lineNumber) ==
  LET sourceLines == extractSourceLines(file)
      defined == lineNumber < Len(sourceLines)
  IN /\ CanCall
     /\ sourceLinesByFile' = cacheSourceLines(file)
     /\ lastOp' = Called("getBreakpoints", file, [NoArgs EXCEPT !.line = lineNumber],
                         IF defined THEN "ok" ELSE "TypeError",
                         IF defined
                           THEN [NoRet EXCEPT !.columns =
                                   tokenStarts(sourceLines[lineNumber + 1], 0, TRUE)]
                           ELSE NoRet,
                         <<>>, <<>>, <<>>)
     /\ UNCHANGED <<disk, currentLineByFile, breakPointsByFile,
                    lastGeneratedBreakpointId, breakPointAddresses, pending,
                    history, sym>>
     /\ UNCHANGED sessionVars

RECURSIVE SumLen(_, _)
SumLen(m, S) ==
  IF S = {} THEN 0
  ELSE LET k == CHOOSE x \in S : TRUE IN Len(m[k]) + SumLen(m, S \ {k})
LiveBreakpoints == SumLen(breakPointsByFile, DOMAIN breakPointsByFile)

\* setBreakPoint(file, line); returns the object it pushed, as verification left it
SetBreakPoint(file, line) ==
  LET bp == [id |-> lastGeneratedBreakpointId, line |-> line, verified |-> FALSE]
      old == TableOf(breakPointsByFile, file)
      v == verifyBreakpoints(Append(old.bps, bp), extractSourceLines(file))
  IN /\ CanCall
     /\ lastGeneratedBreakpointId <= MaxBpId
     /\ LiveBreakpoints < MaxLive
     /\ lastGeneratedBreakpointId' = lastGeneratedBreakpointId + 1
     /\ breakPointsByFile' = MapSet(breakPointsByFile, file, v.bps)
     /\ sourceLinesByFile' = cacheSourceLines(file)
     /\ sendEvents(v.ev, [i \in {bp.id} |-> line])
     /\ lastOp' = Called("setBreakPoint", file, [NoArgs EXCEPT !.line = line],
                         IF v.threw THEN "TypeError" ELSE "ok",
                         IF v.threw THEN NoRet
                         ELSE [NoRet EXCEPT !.bp = <<v.bps[Len(v.bps)]>>],
                         v.ev, <<old>>, <<>>)
     /\ sym' = SymOff
     /\ UNCHANGED <<disk, currentLineByFile, breakPointAddresses>>
     /\ UNCHANGED sessionVars

\* bps.findIndex(bp => bp.line === line), 0-based, -1 when there is none
findIndex(bps, line) ==
  LET hits == { k \in 1..Len(bps) : bps[k].line = line }
  IN IF hits = {} THEN -1 ELSE SetMin(hits) - 1

\* splice that removes the first entry whatever the index
splice_First(bps, index) == [k \in 1..(Len(bps) - 1) |-> bps[k + 1]]

\* bps.splice(index, 1)
splice(bps, index) ==
  [k \in 1..(Len(bps) - 1) |-> IF k <= index THEN bps[k] ELSE bps[k + 1]]

\* clearBreakPoint(file, line)
ClearBreakPoint(file, line) ==
  LET old == TableOf(breakPointsByFile, file)
      index == findIndex(old.bps, line)
      spliced == splice(old.bps, index)
      afterSet == lastOp.op = "setBreakPoint" /\ lastOp.file = file
                  /\ lastOp.args.line = line
  IN /\ CanCall
     /\ breakPointsByFile' = IF old.present /\ index >= 0
                               THEN MapSet(breakPointsByFile, file, spliced)
                               ELSE breakPointsByFile
     /\ lastOp' = Called("clearBreakPoint", file, [NoArgs EXCEPT !.line = line], "ok",
                         IF old.present /\ index >= 0
                           THEN [NoRet EXCEPT !.bp = <<old.bps[index + 1]>>]
                           ELSE NoRet,
                         <<>>, IF afterSet THEN lastOp.table ELSE <<>>, <<>>)
     /\ history' = dropped(breakPointsByFile')
     /\ sym' = SymOff
     /\ UNCHANGED <<disk, sourceLinesByFile, currentLineByFile,
                    lastGeneratedBreakpointId, breakPointAddresses, pending>>
     /\ UNCHANGED sessionVars

\* clearBreakpoints(file)
ClearBreakpoints(file) ==
  /\ CanCall
  /\ breakPointsByFile' = MapDelete(breakPointsByFile, file)
  /\ lastOp' = Called("clearBreakpoints", file, NoArgs, "ok", NoRet, <<>>, <<>>, <<>>)
  /\ history' = dropped(breakPointsByFile')
  /\ sym' = SymOff
  /\ UNCHANGED <<disk, sourceLinesByFile, currentLineByFile,
                 lastGeneratedBreakpointId, breakPointAddresses, pending>>
  /\ UNCHANGED sessionVars

\* setDataBreakpoint(address)
SetDataBreakpoint(address) ==
  /\ CanCall
  /\ breakPointAddresses' = IF address # <<>> THEN breakPointAddresses \cup {address}
                            ELSE breakPointAddresses
  /\ lastOp' = Called("setDataBreakpoint", "", [NoArgs EXCEPT !.address = address],
                      "ok", [NoRet EXCEPT !.added = address # <<>>], <<>>, <<>>, <<>>)
  /\ sym' = SymOff
  /\ UNCHANGED <<disk, sourceLinesByFile, currentLineByFile, breakPointsByFile,
                 lastGeneratedBreakpointId, pending, history>>
  /\ UNCHANGED sessionVars

\* clearAllDataBreakpoints()
ClearAllDataBreakpoints ==
  /\ CanCall
  /\ breakPointAddresses' = {}
  /\ lastOp' = Called("clearAllDataBreakpoints", "", NoArgs, "ok", NoRet, <<>>, <<>>, <<>>)
  /\ sym' = SymOff
  /\ UNCHANGED <<disk, sourceLinesByFile, currentLineByFile, breakPointsByFile,
                 lastGeneratedBreakpointId, pending, history>>
  /\ UNCHANGED sessionVars

\* the event loop runs the oldest setImmediate callback: emit(event, ...args)
Deliver ==
  /\ pending # <<>>
  /\ pending' = Tail(pending)
  /\ UNCHANGED <<disk, sourceLinesByFile, currentLineByFile, breakPointsByFile,
                 lastGeneratedBreakpointId, breakPointAddresses, lastOp,
                 history, sym>>
  /\ UNCHANGED sessionVars

Next ==
  \/ \E file \in EntryFiles, stopOnEntry \in BOOLEAN : Start(file, stopOnEntry)
  \/ \E file \in EntryFiles, direction \in Directions : Continue(file, direction)
  \/ \E file \in EntryFiles, direction \in Directions : Step(file, direction)
  \/ \E file \in EntryFiles : StopOnEntry(file)
  \/ \E file \in EntryFiles, startFrame \in 0..MaxFrame, endFrame \in 0..MaxFrame :
        Stack(file, startFrame, endFrame)
  \/ \E file \in EntryFiles, lineNumber \in 0..MaxLineArg : GetBreakpoints(file, lineNumber)
  \/ \E file \in EntryFiles, line \in 0..MaxLineArg : SetBreakPoint(file, line)
  \/ \E file \in EntryFiles, line \in 0..MaxLineArg : ClearBreakPoint(file, line)
  \/ \E file \in EntryFiles : ClearBreakpoints(file)
  \/ \E address \in Addresses : SetDataBreakpoint(address)
  \/ ClearAllDataBreakpoints
  \/ Deliver

Spec == Init /\ [][Next]_vars

\* ------------------------------------------------------------------------
\* MicroviumDebugSession
\* ------------------------------------------------------------------------
Builds == {"extension", "part_003"}

\* inbound message types: the stops and the replies to requests
StopTypes == {"from-app:stop-on-entry", "from-app:stop-on-step",
              "from-app:stop-on-breakpoint", "from-app:stop-on-data-breakpoint",
              "from-app:stop-on-exception"}
ReplyTypes == {"from-app:stack", "from-app:scopes", "from-app:variables",
               "from-app:verified-breakpoints", "from-app:breakpoints"}

\* the stop types the constructor listens to and the reason it reports
ListenedStops == {"from-app:stop-on-entry", "from-app:stop-on-step",
                  "from-app:stop-on-breakpoint"}
reasonOf(type) ==
  IF type = "from-app:stop-on-entry" THEN "entry"
  ELSE IF type = "from-app:stop-on-step" THEN "step"
  ELSE "breakpoint"

\* the message strings the socket may deliver: an envelope with a stop type,
\* an envelope with a reply type with or without its data, an envelope
\* without a type, and a string that is not JSON
Envelope(type, data, cause) ==
  [shape |-> "envelope", type |-> type, data |-> data, cause |-> cause]
NotJSON == [shape |-> "notJSON", type |-> "", data |-> "", cause |-> 0]
NoType == Envelope("", "", 0)

\* the requests whose continue-request or step-request went to the engine
Resumed ==
  { m.req : m \in { x \in sent : x.type \in {"from-debugger:continue-request",
                                              "from-debugger:step-request"} } }

MessageStrings ==
  { Envelope(type, "", cause) : type \in StopTypes, cause \in {0} \cup Resumed }
    \cup { Envelope(type, data, 0) : type \in ReplyTypes, data \in {"value", ""} }
    \cup { NoType, NotJSON }

ToVM(type, req) == [type |-> type, req |-> req]
Waiter(req, stopOnEntry) == [req |-> req, stopOnEntry |-> stopOnEntry]
Listener(type, req, command, once) ==
  [type |-> type, req |-> req, command |-> command, once |-> once, waiting |-> TRUE]

\* this.debugClientWebSocket.send throws unless the socket is open
canSend(state) == state = "OPEN"

\* an exception or a rejection that no handler catches may end the process
Escapes(n) == alive' \in (IF n > 0 THEN BOOLEAN ELSE {TRUE})

\* the requests answered by the responses among msgs
Answered(msgs) ==
  { msgs[k].req : k \in { j \in 1..Len(msgs) : msgs[j].kind = "response" } }

\* initializeRequest with the event sent before the response
initializeRequest_EventFirst(req) ==
  <<ClientEvent("initialized", "", 0, req), Response(req, "initialize", TRUE)>>

\* initializeRequest: sendResponse(response); sendEvent(new InitializedEvent())
initializeRequest(req) ==
  <<Response(req, "initialize", TRUE), ClientEvent("initialized", "", 0, req)>>

\* launchRequest after `await this.configurationDone.wait(1000)`: what goes to
\* the client at once and what is queued with setImmediate
afterConfigurationDone(w) ==
  IF build = "part_003"
    THEN [now |-> <<Response(w.req, "launch", TRUE)>>,
          later |-> IF w.stopOnEntry
                      THEN <<ClientEvent("stopped", "entry", 0, w.req)>>
                      ELSE <<>>]
    ELSE [now |-> <<>>, later |-> <<>>]

\* setBreakPointsRequest after `await this.debugClientWebSocketOpen.wait(1500)`
afterWebSocketOpen(w, state) ==
  IF canSend(state)
    THEN [sent |-> {ToVM("from-debugger:set-and-verify-breakpoints", w.req)},
          listeners |-> <<Listener("from-app:verified-breakpoints", w.req,
                                   "setBreakpoints", TRUE)>>,
          escaped |-> 0]
    ELSE [sent |-> {}, listeners |-> <<>>, escaped |-> 1]

\* a handler that is suspended on a listener goes on with the data of the
\* event: does it answer the client, or throw on data that is missing
answers(l, data) == l.waiting /\ (l.command \in {"scopes", "variables"} \/ data = "value")
throws(l, data) == l.waiting /\ ~(l.command \in {"scopes", "variables"} \/ data = "value")

Request(command, req) ==
  /\ alive
  /\ nRequests < MaxRequests
  /\ req = nRequests + 1
  /\ nRequests' = req
  /\ UNCHANGED <<build, nMessages>>
  /\ UNCHANGED engineVars

\* initializeRequest
InitializeRequest ==
  \E req \in 1..MaxRequests :
    /\ Request("initialize", req)
    /\ build \in Builds
    /\ toClient' = initializeRequest(req)
    /\ responded' = responded \cup {req}
    /\ lastStep' = Stepped("request", "initialize", req, NoMessage, 0, 0)
    /\ UNCHANGED <<alive, readyState, configurationDone, debugClientWebSocketOpen,
                   listeners, sent, immediates, configured>>

\* launchRequest up to its await
LaunchRequest(stopOnEntry) ==
  \E req \in 1..MaxRequests :
    /\ Request("launch", req)
    /\ build \in Builds
    /\ configurationDone' = Append(configurationDone, Waiter(req, stopOnEntry))
    /\ toClient' = <<>>
    /\ lastStep' = Stepped("request", "launch", req, NoMessage, 0, 0)
    /\ UNCHANGED <<alive, readyState, debugClientWebSocketOpen, listeners, sent,
                   immediates, responded, configured>>

\* configurationDoneRequest: the response of the base class, then notify(),
\* which lets the newest waiter go on
ConfigurationDoneRequest ==
  \E req \in 1..MaxRequests :
    LET waiting == configurationDone # <<>>
        w == configurationDone[Len(configurationDone)]
        a == IF waiting THEN afterConfigurationDone(w) ELSE [now |-> <<>>, later |-> <<>>]
    IN /\ Request("configurationDone", req)
       /\ build \in Builds
       /\ configurationDone' = IF waiting
                                 THEN SubSeq(configurationDone, 1, Len(configurationDone) - 1)
                                 ELSE configurationDone
       /\ toClient' = <<Response(req, "configurationDone", TRUE)>> \o a.now
       /\ immediates' = immediates \o a.later
       /\ responded' = responded \cup Answered(toClient')
       /\ configured' = TRUE
       /\ lastStep' = Stepped("request", "configurationDone", req, NoMessage, 0,
                              IF waiting THEN w.req ELSE 0)
       /\ UNCHANGED <<alive, readyState, debugClientWebSocketOpen, listeners, sent>>

\* the timer of configurationDone.wait(1000) fires for the oldest waiter
ConfigurationDoneTimeout ==
  /\ alive
  /\ configurationDone # <<>>
  /\ LET w == Head(configurationDone)
         a == afterConfigurationDone(w)
     IN /\ configurationDone' = Tail(configurationDone)
        /\ toClient' = a.now
        /\ immediates' = immediates \o a.later
        /\ responded' = responded \cup Answered(toClient')
        /\ lastStep' = Stepped("timeout", "launch", 0, NoMessage, 0, w.req)
  /\ UNCHANGED <<build, alive, readyState, debugClientWebSocketOpen, listeners, sent,
                 configured, nRequests, nMessages>>
  /\ UNCHANGED engineVars

\* the event loop runs the oldest setImmediate callback
RunImmediate ==
  /\ alive
  /\ immediates # <<>>
  /\ toClient' = <<Head(immediates)>>
  /\ immediates' = Tail(immediates)
  /\ lastStep' = Stepped("immediate", "", 0, NoMessage, 0, 0)
  /\ UNCHANGED <<build, alive, readyState, configurationDone, debugClientWebSocketOpen,
                 listeners, sent, responded, configured, nRequests, nMessages>>
  /\ UNCHANGED engineVars

\* threadsRequest
ThreadsRequest ==
  \E req \in 1..MaxRequests :
    /\ Request("threads", req)
    /\ build = "extension"
    /\ toClient' = <<Response(req, "threads", TRUE)>>
    /\ responded' = responded \cup {req}
    /\ lastStep' = Stepped("request", "threads", req, NoMessage, 0, 0)
    /\ UNCHANGED <<alive, readyState, configurationDone, debugClientWebSocketOpen,
                   listeners, sent, immediates, configured>>

\* stackTraceRequest, scopesRequest, variablesRequest and
\* breakpointLocationsRequest up to their await: sendToVM, then a listener
\* (once for stack and breakpoints, on for scopes and variables)
Ask(command, req, toVM, fromVM, once) ==
  /\ Request(command, req)
  /\ build = "extension"
  /\ IF canSend(readyState)
       THEN /\ sent' = sent \cup {ToVM(toVM, req)}
            /\ listeners' = Append(listeners, Listener(fromVM, req, command, once))
            /\ Escapes(0)
            /\ lastStep' = Stepped("request", command, req, NoMessage, 0, 0)
       ELSE /\ UNCHANGED <<sent, listeners>>
            /\ Escapes(1)
            /\ lastStep' = Stepped("request", command, req, NoMessage, 1, 0)
  /\ toClient' = <<>>
  /\ UNCHANGED <<readyState, configurationDone, debugClientWebSocketOpen, immediates,
                 responded, configured>>

StackTraceRequest ==
  \E req \in 1..MaxRequests :
    Ask("stackTrace", req, "from-debugger:stack-request", "from-app:stack", TRUE)

ScopesRequest ==
  \E req \in 1..MaxRequests :
    Ask("scopes", req, "from-debugger:scopes-request", "from-app:scopes", FALSE)

VariablesRequest ==
  \E req \in 1..MaxRequests :
    Ask("variables", req, "from-debugger:variables-request", "from-app:variables", FALSE)

\* continueRequest and nextRequest: sendToVM, then sendResponse; the caller
\* of the handler answers an exception of sendToVM with an error response
Resume(command, req, toVM) ==
  /\ Request(command, req)
  /\ build = "extension"
  /\ sent' = IF canSend(readyState) THEN sent \cup {ToVM(toVM, req)} ELSE sent
  /\ toClient' = <<Response(req, command, canSend(readyState))>>
  /\ responded' = responded \cup {req}
  /\ lastStep' = Stepped("request", command, req, NoMessage, 0, 0)
  /\ UNCHANGED <<alive, readyState, configurationDone, debugClientWebSocketOpen,
                 listeners, immediates, configured>>

ContinueRequest ==
  \E req \in 1..MaxRequests : Resume("continue", req, "from-debugger:continue-request")

NextRequest ==
  \E req \in 1..MaxRequests : Resume("next", req, "from-debugger:step-request")

\* setBreakPointsRequest up to its first await; it returns at once when the
\* source has no path
SetBreakPointsRequest(hasPath) ==
  \E req \in 1..MaxRequests :
    /\ Request("setBreakpoints", req)
    /\ build = "extension"
    /\ debugClientWebSocketOpen' =
         IF hasPath THEN Append(debugClientWebSocketOpen, Waiter(req, FALSE))
         ELSE debugClientWebSocketOpen
    /\ toClient' = <<>>
    /\ lastStep' = Stepped("request", "setBreakpoints", req, NoMessage, 0, 0)
    /\ UNCHANGED <<alive, readyState, configurationDone, listeners, sent, immediates,
                   responded, configured>>

\* breakpointLocationsRequest
BreakpointLocationsRequest(hasPath) ==
  \E req \in 1..MaxRequests :
    IF hasPath
      THEN Ask("breakpointLocations", req, "from-debugger:get-breakpoints",
               "from-app:breakpoints", TRUE)
      ELSE /\ Request("breakpointLocations", req)
           /\ build = "extension"
           /\ toClient' = <<>>
           /\ lastStep' = Stepped("request", "breakpointLocations", req, NoMessage, 0, 0)
           /\ UNCHANGED <<alive, readyState, configurationDone, debugClientWebSocketOpen,
                          listeners, sent, immediates, responded, configured>>

\* debugClientWebSocket 'open': start-session, then notify(), which lets the
\* newest setBreakPointsRequest go on
WebSocketOpen ==
  /\ alive
  /\ build = "extension"
  /\ readyState = "CONNECTING"
  /\ readyState' = "OPEN"
  /\ LET waiting == debugClientWebSocketOpen # <<>>
         w == debugClientWebSocketOpen[Len(debugClientWebSocketOpen)]
         a == IF waiting THEN afterWebSocketOpen(w, "OPEN")
              ELSE [sent |-> {}, listeners |-> <<>>, escaped |-> 0]
     IN /\ debugClientWebSocketOpen' =
             IF waiting
               THEN SubSeq(debugClientWebSocketOpen, 1, Len(debugClientWebSocketOpen) - 1)
               ELSE debugClientWebSocketOpen
        /\ sent' = sent \cup {ToVM("from-debugger:start-session", 0)} \cup a.sent
        /\ listeners' = listeners \o a.listeners
        /\ lastStep' = Stepped("open", "", 0, NoMessage, 0, IF waiting THEN w.req ELSE 0)
  /\ toClient' = <<>>
  /\ UNCHANGED <<build, alive, configurationDone, immediates, responded, configured,
                 nRequests, nMessages>>
  /\ UNCHANGED engineVars

\* the timer of debugClientWebSocketOpen.wait(1500) fires for the oldest waiter
WebSocketOpenTimeout ==
  /\ alive
  /\ debugClientWebSocketOpen # <<>>
  /\ LET w == Head(debugClientWebSocketOpen)
         a == afterWebSocketOpen(w, readyState)
     IN /\ debugClientWebSocketOpen' = Tail(debugClientWebSocketOpen)
        /\ sent' = sent \cup a.sent
        /\ listeners' = listeners \o a.listeners
        /\ Escapes(a.escaped)
        /\ lastStep' = Stepped("timeout", "setBreakpoints", 0, NoMessage, a.escaped, w.req)
  /\ toClient' = <<>>
  /\ UNCHANGED <<build, readyState, configurationDone, immediates, responded,
                 configured, nRequests, nMessages>>
  /\ UNCHANGED engineVars

\* debugClientWebSocket 'message': JSON.parse, then
\* debuggerEventEmitter.emit(type, data)
WebSocketMessage(messageStr) ==
  LET fired == SelectSeq(listeners, LAMBDA l : l.type = messageStr.type)
      replies == SelectSeq(fired, LAMBDA l : answers(l, messageStr.data))
      failing == SelectSeq(fired, LAMBDA l : throws(l, messageStr.data))
      kept == SelectSeq(listeners, LAMBDA l : ~(l.type = messageStr.type /\ l.once))
      escaped == IF messageStr.shape = "notJSON" THEN 1 ELSE Len(failing)
  IN /\ alive
     /\ build = "extension"
     /\ readyState = "OPEN"
     /\ nMessages < MaxMessages
     /\ nMessages' = nMessages + 1
     /\ toClient' =
          IF messageStr.type \in ListenedStops
            THEN <<ClientEvent("stopped", reasonOf(messageStr.type), threadId,
                               messageStr.cause)>>
            ELSE [k \in 1..Len(replies) |->
                    Response(replies[k].req, replies[k].command, TRUE)]
     /\ listeners' = [k \in 1..Len(kept) |->
                        IF kept[k].type = messageStr.type
                          THEN [kept[k] EXCEPT !.waiting = FALSE]
                          ELSE kept[k]]
     /\ responded' = responded \cup Answered(toClient')
     /\ Escapes(escaped)
     /\ lastStep' = Stepped("message", "", 0, messageStr, escaped, 0)
     /\ UNCHANGED <<build, readyState, configurationDone, debugClientWebSocketOpen,
                    sent, immediates, configured, nRequests>>
     /\ UNCHANGED engineVars

SessionInit ==
  /\ \E b \in Builds : SessionNew(b)
  /\ disk = [file \in Files |-> JoinLines(LinesA)]
  /\ sourceLinesByFile = EmptyMap
  /\ currentLineByFile = EmptyMap
  /\ breakPointsByFile = EmptyMap
  /\ lastGeneratedBreakpointId = 1
  /\ breakPointAddresses = {}
  /\ pending = <<>>
  /\ lastOp = NoOp
  /\ history = [i \in 1..MaxBpId |-> [created |-> -1, validated |-> 0]]
  /\ sym = SymOff

SessionNext ==
  \/ InitializeRequest
  \/ \E stopOnEntry \in BOOLEAN : LaunchRequest(stopOnEntry)
  \/ ConfigurationDoneRequest
  \/ ConfigurationDoneTimeout
  \/ RunImmediate
  \/ ThreadsRequest
  \/ StackTraceRequest
  \/ ScopesRequest
  \/ VariablesRequest
  \/ ContinueRequest
  \/ NextRequest
  \/ \E hasPath \in BOOLEAN : SetBreakPointsRequest(hasPath)
  \/ \E hasPath \in BOOLEAN : BreakpointLocationsRequest(hasPath)
  \/ WebSocketOpen
  \/ WebSocketOpenTimeout
  \/ \E messageStr \in MessageStrings : WebSocketMessage(messageStr)

SpecSession == SessionInit /\ [][SessionNext]_vars

\* the session with the scheduling of the event loop: a timer that was set
\* fires, a callback queued with setImmediate runs
SpecSessionLive ==
  /\ SessionInit
  /\ [][SessionNext]_vars
  /\ WF_vars(ConfigurationDoneTimeout)
  /\ WF_vars(WebSocketOpenTimeout)
  /\ WF_vars(RunImmediate)


\* ------------------------------------------------------------------------
\* Properties
\* ------------------------------------------------------------------------
RunOps == {"start", "continue", "step", "stopOnEntry"}

\* the stop and end events among evs, in order
Terminals(evs) ==
  LET types == [k \in 1..Len(evs) |-> evs[k].type]
  IN SelectSeq(types, LAMBDA t : t \in StopEvents \cup {"end"})

\* the lines of the file as they are on disk, untrimmed
RawLines(file) == SplitChar(disk[file], EOL)

\* the whitespace-delimited tokens of a line
TokensOf(line) == SelectSeq(SplitWS(Trim(line)), LAMBDA w : w # <<>>)

\* the line is not one verification shifts a breakpoint away from
Unshifting(srcLine) == srcLine # <<>> /\ srcLine[1] \notin {"+", "-"}

TextA == JoinLines(LinesA)
sHi == <<"h", "i">>

\* --- C1 -----------------------------------------------------------------
\* the last call is a clearBreakPoint(file, line) that directly followed
\* setBreakPoint(file, line)
C1_Case == lastOp.op = "clearBreakPoint" /\ lastOp.table # <<>>

\* the table existed before the setBreakPoint, held only breakpoints that are
\* verified or past the end of the source and none at line, and line is not
\* one verification shifts from
C1_Settled ==
  LET t == lastOp.table[1]
      line == lastOp.args.line
      lines == extractSourceLines(lastOp.file)
  IN /\ t.present
     /\ \A k \in 1..Len(t.bps) :
          /\ t.bps[k].line # line
          /\ t.bps[k].verified \/ t.bps[k].line >= Len(lines)
     /\ line >= Len(lines) \/ Unshifting(Trim(lines[line + 1]))

\* C1 (as stated): setBreakPoint(file, line) immediately followed by
\* clearBreakPoint(file, line) leaves the file's breakpoint table (presence,
\* ids, lines, verified flags, order) exactly as it was before the two calls.
C1_SetThenClearRestores ==
  C1_Case => TableOf(breakPointsByFile, lastOp.file) = lastOp.table[1]

\* C1 (amended): the same, for a file whose table already exists and holds
\* only breakpoints that are verified or out of range and none at line, and
\* for a line that verification does not shift.
C1_SetThenClearRestoresSettled ==
  (C1_Case /\ C1_Settled) =>
     TableOf(breakPointsByFile, lastOp.file) = lastOp.table[1]

C1_Witness ==
  /\ C1_Case /\ C1_Settled
  /\ lastOp.table[1].bps # <<>>
  /\ lastOp.ret.bp # <<>>
  /\ lastOp.ret.bp[1].line = lastOp.args.line

\* --- C2 -----------------------------------------------------------------
\* N steps forwards have been followed by N steps backwards, N >= 1, in a
\* file with no breakpoints, no data breakpoints and no 'exception' line
C2_Case == sym.phase = "back" /\ sym.nb = sym.nf

\* C2 (as stated): N steps forwards from the start followed by N steps
\* backwards leave the cursor at the position it had before the first step.
C2_DirectionalSymmetry ==
  C2_Case => CursorOf(currentLineByFile, sym.file) = sym.orig

\* C2 (amended): the same, when the cursor rests on line 0 before the first
\* step, as after start(file, true) on a file whose first line is not blank.
C2_DirectionalSymmetryFromLine0 ==
  (C2_Case /\ sym.orig = [present |-> TRUE, line |-> 0]) =>
     CursorOf(currentLineByFile, sym.file) = sym.orig

C2_Witness ==
  /\ C2_Case /\ sym.orig = [present |-> TRUE, line |-> 0]
  /\ sym.entry = "start" /\ sym.nf = 2

\* --- C3 -----------------------------------------------------------------
\* the last call is continue(forwards) on the example file, with no
\* breakpoints of either kind
C3_Case ==
  /\ lastOp.op = "continue" /\ lastOp.args.direction = "forwards"
  /\ disk[lastOp.file] = TextA
  /\ TableOf(breakPointsByFile, lastOp.file).bps = <<>>
  /\ breakPointAddresses = {}

C3_Output == OutputEv(sHi, lastOp.file, 1, 0)

\* C3 (as stated): continue from an unset cursor stops at line 1 having
\* emitted the output "hi"; a continue from there stops at line 3 with an
\* exception stop.
C3_ExampleStopsAtLogLine ==
  C3_Case =>
    /\ ~lastOp.cursor[1].present =>
         /\ CursorOf(currentLineByFile, lastOp.file) = [present |-> TRUE, line |-> 1]
         /\ \E k \in 1..Len(lastOp.ev) : lastOp.ev[k] = C3_Output
    /\ lastOp.cursor[1] = [present |-> TRUE, line |-> 1] =>
         /\ CursorOf(currentLineByFile, lastOp.file) = [present |-> TRUE, line |-> 3]
         /\ Terminals(lastOp.ev) = <<"stopOnException">>

\* C3 (amended): continue from an unset cursor emits the output "hi" while
\* passing line 1 and stops at line 3 with an exception stop; a subsequent
\* continue emits 'end' and leaves the cursor at line 3.
C3_ExampleStopsAtException ==
  C3_Case =>
    /\ ~lastOp.cursor[1].present =>
         /\ CursorOf(currentLineByFile, lastOp.file) = [present |-> TRUE, line |-> 3]
         /\ lastOp.ev = <<C3_Output, Ev("stopOnException")>>
    /\ lastOp.cursor[1] = [present |-> TRUE, line |-> 3] =>
         /\ CursorOf(currentLineByFile, lastOp.file) = [present |-> TRUE, line |-> 3]
         /\ lastOp.ev = <<Ev("end")>>

C3_Witness ==
  /\ C3_Case
  /\ lastOp.cursor[1] = [present |-> TRUE, line |-> 3]
  /\ lastOp.ev = <<Ev("end")>>

\* --- C4 -----------------------------------------------------------------
\* the lines the last run visited: from the cursor (exclusive) to the line
\* it stopped on, or to the file boundary when it stopped nowhere
C4_Visited ==
  LET from == lastOp.cursor[1].line
      dir == IF lastOp.op \in {"continue", "step"} THEN lastOp.args.direction ELSE "forwards"
      last == lastOp.ev[Len(lastOp.ev)].type
      exhausted == last = "end" \/ (dir = "backwards" /\ last = "stopOnEntry")
      cur == currentLineByFile[lastOp.file]
      n == Len(extractSourceLines(lastOp.file))
  IN IF dir = "forwards"
       THEN (from + 1)..(IF exhausted THEN n - 1 ELSE cur)
       ELSE (IF exhausted THEN 0 ELSE cur)..(from - 1)

\* C4: a run halts on the first line it visits that has a
\* whitespace-delimited token equal to a registered data breakpoint, with a
\* data-breakpoint stop as its only stop and the cursor on that line.
C4_DataBreakpointFirst ==
  lastOp.op \in RunOps =>
    \A l \in C4_Visited :
      LET toks == TokensOf(extractSourceLines(lastOp.file)[l + 1])
      IN (\E k \in 1..Len(toks) : toks[k] \in breakPointAddresses) =>
           /\ currentLineByFile[lastOp.file] = l
           /\ Terminals(lastOp.ev) = <<"stopOnDataBreakpoint">>

\* --- C5 -----------------------------------------------------------------
\* C5: every breakpoint of a table that was created with a line inside the
\* source has a line inside the source (0 <= line < number of lines).
C5_BreakpointLinesInRange ==
  \A file \in DOMAIN breakPointsByFile :
    \A k \in 1..Len(breakPointsByFile[file]) :
      LET bp == breakPointsByFile[file][k]
          n == Len(extractSourceLines(file))
      IN history[bp.id].created \in 0..(n - 1) => bp.line \in 0..(n - 1)

\* --- C6 -----------------------------------------------------------------
\* the last call is a setBreakPoint on a line of the source that is blank or
\* starts with '+' or '-'
C6_Case ==
  /\ lastOp.op = "setBreakPoint"
  /\ lastOp.args.line < Len(extractSourceLines(lastOp.file))
  /\ ~Unshifting(extractSourceLines(lastOp.file)[lastOp.args.line + 1])

C6_Lazy(text) == IndexOf(text, sLazy) >= 0

\* the first breakpoint of the file on the line the cursor is at
C6_HitBreakpoint ==
  LET bps == breakPointsByFile[lastOp.file]
      k == SetMin({ j \in 1..Len(bps) : bps[j].line = currentLineByFile[lastOp.file] })
  IN bps[k]

\* a run that stopped on a breakpoint leaves that breakpoint verified
C6_VerifiedWhenHit ==
  (lastOp.op \in RunOps /\ Terminals(lastOp.ev) = <<"stopOnBreakpoint">>) =>
     C6_HitBreakpoint.verified

C7_VerificationIdempotent ==
  [][ /\ \A i \in DOMAIN history : history'[i].validated <= 1
      /\ \A file \in DOMAIN breakPointsByFile :
           \A k \in 1..Len(breakPointsByFile[file]) :
             LET bp == breakPointsByFile[file][k]
             IN bp.verified =>
                  /\ history'[bp.id].validated = history[bp.id].validated
                  /\ \A file2 \in DOMAIN breakPointsByFile' :
                       \A k2 \in 1..Len(breakPointsByFile'[file2]) :
                         breakPointsByFile'[file2][k2].id = bp.id =>
                           breakPointsByFile'[file2][k2] = bp ]_vars

\* a verification pass ran over a breakpoint of the source that was already
\* verified and had got its validation
C7_Witness ==
  /\ lastOp.op = "setBreakPoint"
  /\ \E k \in 1..Len(lastOp.table[1].bps) :
       /\ lastOp.table[1].bps[k].verified
       /\ lastOp.table[1].bps[k].line \in 0..(Len(extractSourceLines(lastOp.file)) - 1)
       /\ history[lastOp.table[1].bps[k].id].validated = 1
       /\ lastOp.table[1].bps[k] = breakPointsByFile[lastOp.file][k]

\* --- C8 -----------------------------------------------------------------
RECURSIVE SortedSeq(_)
SortedSeq(S) == IF S = {} THEN <<>> ELSE <<SetMin(S)>> \o SortedSeq(S \ {SetMin(S)})

\* the start column of every whitespace-delimited token of a line
TokenStartColumns(line) ==
  SortedSeq({ i \in 0..(Len(line) - 1) :
                /\ line[i + 1] \notin WhiteSpace
                /\ i = 0 \/ line[i] \in WhiteSpace })

\* C8: getBreakpoints(file, lineNumber) returns, in increasing order, the
\* start column of every whitespace-delimited token of that line of the file.
C8_TokenStartColumns ==
  (lastOp.op = "getBreakpoints" /\ lastOp.args.line < Len(RawLines(lastOp.file))) =>
     /\ lastOp.status = "ok"
     /\ lastOp.ret.columns = TokenStartColumns(RawLines(lastOp.file)[lastOp.args.line + 1])

\* --- C9 -----------------------------------------------------------------
C9_Case == lastOp.op = "start" /\ lastOp.args.stopOnEntry

\* C9 (as stated): start(file, true) emits a stop-at-entry and no other stop
\* or end event and does not move the cursor past the entry position.
C9_StopOnEntryOnly ==
  C9_Case =>
    /\ Terminals(lastOp.ev) = <<"stopOnEntry">>
    /\ IF lastOp.cursor[1].present
         THEN currentLineByFile[lastOp.file] = lastOp.cursor[1].line
         ELSE currentLineByFile[lastOp.file] <= 0

\* the cursor was unset and the first line of the file is not blank, has no
\* space-delimited word that is a registered data breakpoint, does not
\* contain 'exception' and carries no breakpoint
C9_PlainFirstLine ==
  LET line0 == extractSourceLines(lastOp.file)[1]
      words == SplitChar(line0, " ")
      bps == TableOf(breakPointsByFile, lastOp.file).bps
  IN /\ ~lastOp.cursor[1].present
     /\ line0 # <<>>
     /\ \A k \in 1..Len(words) : words[k] \notin breakPointAddresses
     /\ IndexOf(line0, sExc) < 0
     /\ \A k \in 1..Len(bps) : bps[k].line # 0

\* C9 (amended): start(file, true) on a file with an unset cursor whose first
\* line is plain emits a stop-at-entry and no other stop or end event and
\* leaves the cursor on line 0.
C9_StopOnEntryOnPlainFirstLine ==
  (C9_Case /\ C9_PlainFirstLine) =>
     /\ Terminals(lastOp.ev) = <<"stopOnEntry">>
     /\ currentLineByFile[lastOp.file] = 0

C9_Witness ==
  /\ C9_Case /\ C9_PlainFirstLine
  /\ Terminals(lastOp.ev) = <<"stopOnEntry">>
  /\ currentLineByFile[lastOp.file] = 0

\* --- C10 ----------------------------------------------------------------
\* the frames the claim describes for the tokens toks of line number line
C10_Frames(file, toks, line, startFrame, endFrame) ==
  LET last == Min2(endFrame, Len(toks))
  IN [k \in 1..(IF last > startFrame THEN last - startFrame ELSE 0) |->
        [index |-> startFrame + k - 1,
         name |-> toks[startFrame + k] \o <<"(", DigitChar(startFrame + k - 1), ")">>,
         file |-> file, line |-> line]]

\* C10: stack fails with an unexpected-state error when the file has no
\* cursor, leaving the engine's state unchanged; with a cursor it returns one
\* frame token(index) per token of the current line with index in
\* [startFrame, min(endFrame, tokenCount)), and count = tokenCount.
C10_StackFramesOrUnexpected ==
  [][ lastOp'.op = "stack" =>
        IF ~Has(currentLineByFile', lastOp'.file)
          THEN /\ lastOp'.status = "Unexpected"
               /\ UNCHANGED <<currentLineByFile, breakPointsByFile,
                              breakPointAddresses, lastGeneratedBreakpointId>>
          ELSE /\ lastOp'.status = "ok"
               /\ LET line == currentLineByFile'[lastOp'.file]
                      toks == TokensOf(sourceLinesByFile'[lastOp'.file][line + 1])
                  IN /\ lastOp'.ret.frames =
                          C10_Frames(lastOp'.file, toks, line,
                                     lastOp'.args.startFrame, lastOp'.args.endFrame)
                     /\ lastOp'.ret.count = Len(toks) ]_vars

C18_Event ==
  IF lastOp.op = "step" THEN "stopOnStep"
  ELSE IF lastOp.op = "stopOnEntry" \/ (lastOp.op = "start" /\ lastOp.args.stopOnEntry)
    THEN "stopOnEntry"
  ELSE ""

C18_Direction ==
  IF lastOp.op \in {"continue", "step"} THEN lastOp.args.direction ELSE "forwards"

\* the last run scanned from its cursor to the file boundary and no line it
\* visited matched a stop condition
C18_Case ==
  /\ lastOp.op \in RunOps
  /\ LET lines == extractSourceLines(lastOp.file)
         from == lastOp.cursor[1].line
         visited == IF C18_Direction = "forwards" THEN (from + 1)..(Len(lines) - 1)
                    ELSE 0..(from - 1)
     IN \A l \in visited :
          ~processSourceLine(lines, breakPointsByFile, breakPointAddresses,
                             lastOp.file, l, C18_Event).stop

\* C18: a run that scans to the file boundary without a stop sets the cursor
\* to 0 and emits stop-at-entry when going backwards; going forwards it emits
\* 'end' and the cursor keeps the value it had before the run.
C18_BoundaryRun ==
  C18_Case =>
    IF C18_Direction = "backwards"
      THEN /\ CursorOf(currentLineByFile, lastOp.file) = [present |-> TRUE, line |-> 0]
           /\ Terminals(lastOp.ev) = <<"stopOnEntry">>
      ELSE /\ CursorOf(currentLineByFile, lastOp.file) = lastOp.cursor[1]
           /\ Terminals(lastOp.ev) = <<"end">>

\* --- C19 ----------------------------------------------------------------
\* C19: every start, step, continue or stopOnEntry call emits exactly one
\* terminal event: one stop event or one 'end', never both and never none.
C19_OneTerminalEvent ==
  lastOp.op \in RunOps => Len(Terminals(lastOp.ev)) = 1

\* a continue that stopped on an unverified breakpoint: its stop is followed
\* by the validation of the breakpoint
C19_Witness ==
  /\ lastOp.op = "continue"
  /\ Len(lastOp.ev) = 2
  /\ lastOp.ev[1].type = "stopOnBreakpoint"
  /\ lastOp.ev[2].type = "breakpointValidated"

\* --- C20 ----------------------------------------------------------------
\* C20: every execution cursor indexes a line of its file, and stack on a
\* file that has a cursor returns frames.
C20_CursorInRange ==
  /\ \A file \in DOMAIN currentLineByFile :
       currentLineByFile[file] \in 0..(Len(extractSourceLines(file)) - 1)
  /\ (lastOp.op = "stack" /\ Has(currentLineByFile, lastOp.file)) => lastOp.status = "ok"

\* C11: a configurationDone request releases the launch request's wait on the
\* configuration-complete gate in either order of arrival, so that a launch
\* that arrives after configurationDone goes on without waiting for the
\* timeout of the gate, and a launch never runs into the timeout once
\* configurationDone was handled.
C11_ConfigurationDoneReleasesLaunch ==
  /\ (lastStep.step = "request" /\ lastStep.command = "launch" /\ configured)
       => configurationDone = <<>>
  /\ ~(lastStep.step = "timeout" /\ lastStep.command = "launch" /\ configured)

\* C12: when the timer of the transport-ready gate fires for a waiting
\* setBreakPoints request while the web socket is not open, the client gets a
\* failed response to that request, no set-and-verify-breakpoints message of
\* the request is sent, and the session stays alive; a failed setBreakpoints
\* response is sent at no other step.
C12_TimeoutFailsRequest ==
  /\ (lastStep.step = "timeout" /\ lastStep.command = "setBreakpoints"
        /\ readyState # "OPEN")
       => /\ toClient = <<Response(lastStep.released, "setBreakpoints", FALSE)>>
          /\ ToVM("from-debugger:set-and-verify-breakpoints", lastStep.released) \notin sent
          /\ alive
  /\ \A k \in 1..Len(toClient) :
       (toClient[k].kind = "response" /\ toClient[k].name = "setBreakpoints"
          /\ ~toClient[k].success)
         => (lastStep.step = "timeout" /\ lastStep.command = "setBreakpoints")

\* C13: the response to a launch request is sent only at a step at which the
\* wait of that request on the configuration-done gate has ended, and only
\* when the start-session message has been sent to the engine.
C13_LaunchAckAfterStart ==
  \A k \in 1..Len(toClient) :
    (toClient[k].kind = "response" /\ toClient[k].name = "launch")
      => /\ lastStep.released = toClient[k].req
         /\ ToVM("from-debugger:start-session", 0) \in sent

\* C14: a stop event of the engine of any of the five kinds (entry, step,
\* breakpoint, data breakpoint, exception) results in exactly one 'stopped'
\* notification to the client with the reason of its kind and thread id 1.
C14_Reason ==
  [type \in StopTypes |->
     IF type = "from-app:stop-on-entry" THEN "entry"
     ELSE IF type = "from-app:stop-on-step" THEN "step"
     ELSE IF type = "from-app:stop-on-breakpoint" THEN "breakpoint"
     ELSE IF type = "from-app:stop-on-data-breakpoint" THEN "data breakpoint"
     ELSE "exception"]

C14_OneStoppedPerStop ==
  (lastStep.step = "message" /\ lastStep.msg.type \in StopTypes)
    => toClient = <<ClientEvent("stopped", C14_Reason[lastStep.msg.type], 1,
                                lastStep.msg.cause)>>

\* C15: an inbound message that cannot be parsed or that has no type is
\* dropped: the step that handles it sends nothing to the client, leaves the
\* listeners and the waiting requests as they were, lets no exception escape
\* and leaves the session alive for the messages that follow.
C15_MalformedMessageDropped ==
  [][(/\ nMessages' = nMessages + 1
      /\ lastStep'.msg \in {NotJSON, NoType})
       => /\ toClient' = <<>>
          /\ listeners' = listeners
          /\ configurationDone' = configurationDone
          /\ debugClientWebSocketOpen' = debugClientWebSocketOpen
          /\ lastStep'.escaped = 0
          /\ alive']_vars

\* C17: response before notification. A notification caused by a request
\* ('initialized' by initialize, 'stopped' by a launch with stopOnEntry,
\* 'stopped' by the engine after a continue or next) reaches the client after
\* the response to that request: the response is earlier in the same output,
\* or it was sent at an earlier step.
C17_ResponseBeforeNotification ==
  \A k \in 1..Len(toClient) :
    (toClient[k].kind = "event" /\ toClient[k].cause # 0)
      => \/ \E j \in 1..(k - 1) :
              toClient[j].kind = "response" /\ toClient[j].req = toClient[k].cause
         \/ /\ toClient[k].cause \in responded
            /\ toClient[k].cause \notin Answered(toClient)

\* an initialize request was handled: its response and the 'initialized'
\* notification it causes both went to the client at that step
C17_Witness ==
  /\ lastStep.step = "request"
  /\ lastStep.command = "initialize"
  /\ Len(toClient) = 2
  /\ \E k \in 1..2 : toClient[k].kind = "response" /\ toClient[k].req = lastStep.req
  /\ \E k \in 1..2 : toClient[k].name = "initialized" /\ toClient[k].cause = lastStep.req

\* --- C21 ----------------------------------------------------------------
\* the step is a call of setBreakPoint
C21_Call ==
  /\ lastGeneratedBreakpointId' = lastGeneratedBreakpointId + 1
  /\ lastOp'.op = "setBreakPoint"

\* the ids of the breakpoints the validation events of the call are about
C21_Validated ==
  { lastOp'.ev[k].bp[1].id :
      k \in { j \in 1..Len(lastOp'.ev) : lastOp'.ev[j].type = "breakpointValidated" } }

C22_OneReplyOneRequest ==
  (lastStep.step = "message" /\ lastStep.msg.type \in ReplyTypes)
    => /\ Len(toClient) <= 1
       /\ Cardinality(Answered(toClient)) <= 1

\* --- C23 ----------------------------------------------------------------
\* C23: request/reply correlations are one-shot. No listener on the event
\* emitter belongs to a request whose response has been sent, so every reply
\* listener is the listener of a request that is still pending.
C23_ListenersOneShot ==
  \A k \in 1..Len(listeners) :
    /\ listeners[k].req \notin responded
    /\ listeners[k].waiting

\* --- C24 ----------------------------------------------------------------
\* the transport opens, configurationDone arrives, the engine answers every
\* message sent to it with a well-formed reply, and nothing ends the session
C24_Provided ==
  /\ <>(readyState = "OPEN")
  /\ <>configured
  /\ <>[](\A k \in 1..Len(listeners) : ~listeners[k].waiting)
  /\ [](/\ alive
        /\ lastStep.msg.shape # "notJSON"
        /\ ~(lastStep.msg.type \in ReplyTypes /\ lastStep.msg.data = ""))

\* C24: provided the transport opens, configurationDone arrives and the
\* engine answers every message, every request the session has received is
\* eventually answered, and no request is answered a second time.
C24_EveryRequestAnswered ==
  /\ [][Answered(toClient') \cap responded = {}]_vars
  /\ C24_Provided => <>[](\A r \in 1..nRequests : r \in responded)
====
